---- MODULE Spec2Model ----
(***************************************************************************)
(* AJA_tools: job-file recipe parser, job catalog, log/job correlation and *)
(* layer selection.  Text (paths, file contents, recipe names) is a        *)
(* sequence of one-character tokens; offsets are 0-based as in Python.     *)
(* An optional value (Python None) is a sequence of zero or one elements.  *)
(***************************************************************************)
EXTENDS Integers, Sequences, FiniteSets, TLC

VARIABLES
    pc,             \* position of the caller: "call", then the name of what ran
    logfile_path,   \* get_job: its argument
    job_name,       \* get_job: the name it returns; parse_jobfile: its job_name
    file_path,      \* parse_jobfile: its argument
    raw_job,        \* parse_jobfile: the text of the file at file_path
    names,          \* the recipe names raw_job was written from (<<>> if free text)
    return_raw_recipe, \* parse_jobfile: its flag argument
    start_ix,       \* parse_jobfile, get_recipe: the cursor of the scan loop
    raw_recipe,     \* parse_jobfile: the tokens of the scan, [ix, text]
    retval,         \* what the last call returns
    file_read,      \* parse_jobfile: whether the file was opened and read
    raised,         \* the exception that left the last call, or "none"
    warned,         \* warnings.warn calls so far: [msg, arg]
    jobtree,        \* os.walk listing of the job directory: [path, text]
    logtree,        \* os.walk listing of the log directory: [path, text]
    jobs,           \* build_jobs_dict: job name -> recipe
    logs,           \* build_logs_list: the list it returns
    logs_dict,      \* filter_logs: its argument, in key order
    target_recipe,  \* filter_logs: its argument
    read_data,      \* filter_logs: its argument
    read_layers,    \* filter_logs: its argument
    force_overwrite, \* filter_logs: its argument
    filtered_logs,  \* filter_logs: what it returns
    keys,           \* keys_parser: its argument
    ignore_keys,    \* keys_parser: its argument, None when left out
    match_ignore,   \* keys_parser: its argument
    filtered_keys,  \* keys_parser: what it returns
    ignore_keys_default, \* keys_parser: the list object of the default ignore_keys = []
    calls           \* keys_parser: calls made so far

vars == <<pc, logfile_path, job_name, file_path, raw_job, names,
          return_raw_recipe, start_ix, raw_recipe, retval, file_read, raised,
          warned, jobtree, logtree, jobs, logs,
          logs_dict, target_recipe, read_data, read_layers, force_overwrite,
          filtered_logs, keys, ignore_keys, match_ignore, filtered_keys,
          ignore_keys_default, calls>>

-----------------------------------------------------------------------------
(* Bounds of the checked instances. *)

MaxJobLen == 2        \* longest enumerated job name in a log path
MaxPathLen == 5       \* longest enumerated parse_jobfile path
MaxBufLen == 10       \* longest enumerated free-text job file
MaxNames == 2         \* most recipe names in a written job file
MaxNameLen == 2       \* longest recipe name in a written job file
MaxJobFiles == 2      \* most files in the job directory
MaxLogFiles == 2      \* most files in the log directory
MaxRecipeLen == 3     \* longest recipe sequence given to filter_logs
MaxCalls == 3         \* most keys_parser calls in a row

-----------------------------------------------------------------------------
(* Python's str and list operations, as the code uses them. *)

None == <<>>
Some(v) == <<v>>

Min(a, b) == IF a < b THEN a ELSE b
Max(a, b) == IF a > b THEN a ELSE b

\* s[a:b] for 0 <= a and 0 <= b
Slice(s, a, b) ==
    IF a >= Min(b, Len(s)) THEN <<>> ELSE SubSeq(s, a + 1, Min(b, Len(s)))

\* s[a:]
SliceFrom(s, a) == Slice(s, a, Len(s))

\* s.find(ch, start): the lowest offset >= start holding ch, or -1
RECURSIVE Find(_, _, _)
Find(s, ch, start) ==
    IF start >= Len(s) THEN -1
    ELSE IF s[start + 1] = ch THEN start
    ELSE Find(s, ch, start + 1)

\* s.rfind(ch)
RECURSIVE RFindFrom(_, _, _)
RFindFrom(s, ch, i) ==
    IF i < 0 THEN -1
    ELSE IF s[i + 1] = ch THEN i
    ELSE RFindFrom(s, ch, i - 1)

RFind(s, ch) == RFindFrom(s, ch, Len(s) - 1)

\* s.strip(chars): drops every leading and trailing character that is IN chars
RECURSIVE LStrip(_, _)
LStrip(s, chars) ==
    IF s # <<>> /\ Head(s) \in chars THEN LStrip(Tail(s), chars) ELSE s

RECURSIVE RStrip(_, _)
RStrip(s, chars) ==
    IF s # <<>> /\ s[Len(s)] \in chars
    THEN RStrip(SubSeq(s, 1, Len(s) - 1), chars)
    ELSE s

Strip(s, chars) == RStrip(LStrip(s, chars), chars)

\* s.split(sep) for a one-character sep: always at least one field
RECURSIVE Split(_, _)
SplitAt(s, sep, i) ==
    IF i = -1 THEN <<s>>
    ELSE <<Slice(s, 0, i)>> \o Split(SliceFrom(s, i + 1), sep)

Split(s, sep) == SplitAt(s, sep, Find(s, sep, 0))

\* parts[-1]
Last(parts) == parts[Len(parts)]

\* sep.join(parts)
RECURSIVE Join(_, _)
Join(parts, sep) ==
    IF parts = <<>> THEN <<>>
    ELSE IF Len(parts) = 1 THEN parts[1]
    ELSE parts[1] \o <<sep>> \o Join(Tail(parts), sep)

\* s.endswith(suffix)
EndsWith(s, suffix) ==
    /\ Len(s) >= Len(suffix)
    /\ SubSeq(s, Len(s) - Len(suffix) + 1, Len(s)) = suffix

\* os.path.basename(path)
Basename(path) == SliceFrom(path, RFind(path, "/") + 1)

\* parts[0:-2]
DropLastTwo(parts) == SubSeq(parts, 1, Len(parts) - 2)

\* every sequence over S of length lo..hi
SeqsOf(S, lo, hi) == UNION {[1..n -> S] : n \in lo..hi}

dot_dlg == <<".", "d", "l", "g">>
dot_ajp == <<".", "a", "j", "p">>
ajp == <<"a", "j", "p">>

\* the character set str.strip('.dlg') / str.strip('.ajp') removes
CharsOf(s) == {s[i] : i \in 1..Len(s)}

-----------------------------------------------------------------------------
(* get_job: the job name of a log path. *)

\* aja_tools/logfile_tools.py
get_job(path) ==
    Join(DropLastTwo(Split(Strip(Basename(path), CharsOf(dot_dlg)), "_")), "_")

\* recipe_parser.py: the strip is applied to the whole path, then the directory cut
get_job_rp(path) ==
    Join(DropLastTwo(Split(Last(Split(Strip(path, CharsOf(dot_dlg)), "/")), "_")), "_")

-----------------------------------------------------------------------------
(* Dictionaries: functions from keys to values. *)

EmptyDict == [k \in {} |-> <<>>]

DictSet(d, k, v) == [x \in DOMAIN d \cup {k} |-> IF x = k THEN v ELSE d[x]]

\* d1.update(d2)
DictUpdate(d1, d2) ==
    [x \in DOMAIN d1 \cup DOMAIN d2 |-> IF x \in DOMAIN d2 THEN d2[x] ELSE d1[x]]

\* d[k] when k is a key, None otherwise
DictGet(d, k) == IF k \in DOMAIN d THEN Some(d[k]) ELSE None

Warn(msg, arg) == [msg |-> msg, arg |-> arg]

-----------------------------------------------------------------------------
(* The variables each group of operations works on. *)

nameVars == <<logfile_path, job_name>>
parseVars == <<file_path, raw_job, names, return_raw_recipe, start_ix,
               raw_recipe, retval, file_read>>
treeVars == <<jobtree, logtree>>
catalogVars == <<jobs, logs>>
filterVars == <<logs_dict, target_recipe, read_data, read_layers,
                force_overwrite, filtered_logs>>
keysVars == <<keys, ignore_keys, match_ignore, filtered_keys,
              ignore_keys_default, calls>>

NameIdle == logfile_path = <<>> /\ job_name = <<>>
ParseIdle ==
    /\ file_path = <<>> /\ raw_job = <<>> /\ names = <<>>
    /\ return_raw_recipe = FALSE /\ start_ix = 0 /\ raw_recipe = <<>>
    /\ retval = <<>> /\ file_read = FALSE
TreeIdle == jobtree = <<>> /\ logtree = <<>>
CatalogIdle == jobs = EmptyDict /\ logs = <<>>
FilterIdle ==
    /\ logs_dict = <<>> /\ target_recipe = <<>> /\ filtered_logs = <<>>
    /\ read_data = FALSE /\ read_layers = FALSE /\ force_overwrite = FALSE
KeysIdle ==
    /\ keys = <<>> /\ ignore_keys = <<>> /\ match_ignore = <<>>
    /\ filtered_keys = <<>> /\ ignore_keys_default = <<>> /\ calls = 0
Quiet == raised = "none" /\ warned = <<>>

-----------------------------------------------------------------------------
(* Log paths <dir><job>_<s1>_<s2>.dlg and the calls of get_job on them. *)

dep_run == <<"d", "e", "p", "_", "r", "u", "n">>
date_2020 == <<"2", "0", "2", "0", "-", "0", "1", "-", "0", "1">>
seq_003 == <<"0", "0", "3">>

JobChars == {"d", "x", "_"}
JobNames == SeqsOf(JobChars, 0, MaxJobLen) \cup {dep_run}
Suffixes == {<<"1">>, <<"g">>, date_2020, seq_003}
LogDirs == {<<>>, <<"l", "/">>}

LogPath(dir, job, s1, s2) == dir \o job \o <<"_">> \o s1 \o <<"_">> \o s2 \o dot_dlg

\* the jobs_dict arguments given to recipe_parser.get_job
JobsDictArgs ==
    {EmptyDict, [k \in {<<"x">>} |-> <<"x">> \o dot_ajp]}

InitNames ==
    /\ pc = "call"
    /\ \E dir \in LogDirs, job \in JobNames, s1 \in Suffixes, s2 \in Suffixes :
           logfile_path = LogPath(dir, job, s1, s2)
    /\ job_name = <<>>
    /\ ParseIdle /\ TreeIdle /\ CatalogIdle /\ FilterIdle /\ KeysIdle /\ Quiet

\* aja_tools.logfile_tools.get_job(logfile_path)
GetJob ==
    /\ pc = "call"
    /\ pc' = "get_job"
    /\ job_name' = get_job(logfile_path)
    /\ UNCHANGED <<logfile_path, parseVars, treeVars, keysVars, catalogVars, filterVars,
                   raised, warned>>

\* recipe_parser.get_job(logfile_path, jobs_dict, job_folder_path):
\* retval is the job file path of the returned tuple
GetJobRP ==
    /\ pc = "call"
    /\ pc' = "get_job_rp"
    /\ \E jobs_dict \in JobsDictArgs, job_folder_path \in {None, Some(<<"j">>)} :
           IF job_folder_path = None /\ DOMAIN jobs_dict = {}
           THEN /\ raised' = "AssertionError"
                /\ UNCHANGED <<job_name, retval, warned, jobs>>
           ELSE IF job_folder_path # None
           THEN \* get_jobs_dict is not defined anywhere
                /\ raised' = "NameError"
                /\ UNCHANGED <<job_name, retval, warned, jobs>>
           ELSE /\ jobs' = DictUpdate(EmptyDict, jobs_dict)
                /\ job_name' = get_job_rp(logfile_path)
                /\ retval' = DictGet(jobs', job_name')
                /\ warned' = IF retval' = None
                             THEN Append(warned, Warn("No matching job found!", <<>>))
                             ELSE warned
                /\ raised' = "none"
    /\ UNCHANGED <<logfile_path, file_path, raw_job, names, return_raw_recipe,
                   start_ix, raw_recipe, file_read, treeVars, keysVars, logs, filterVars>>

NextNames == GetJob \/ GetJobRP

SpecNames == InitNames /\ [][NextNames]_vars

\* C1: for every log path <dir><job>_<s1>_<s2>.dlg (s1, s2 free of '_'),
\* get_job returns exactly <job>; 'dep_run_2020-01-01_003.dlg' gives 'dep_run'.
C1_GetJobReturnsJob ==
    pc = "get_job" =>
        \A dir \in LogDirs, job \in JobNames, s1 \in Suffixes, s2 \in Suffixes :
            logfile_path = LogPath(dir, job, s1, s2) => job_name = job

-----------------------------------------------------------------------------
(* parse_jobfile: the scan of a job file and the recipe it returns. *)

init_len == 8
term_len == 4
term_char == "NUL"
Start == <<"S", "t", "a", "r", "t">>

Tok(ix, text) == [ix |-> ix, text |-> text]

\* a suffix test that forgets the '.'
HasAjpExtension_nodot(path) == EndsWith(path, ajp)

\* file_path.split('.')[-1] == 'ajp'
HasAjpExtension(path) == Last(Split(path, ".")) = ajp

\* file_path.strip('.ajp').split('/')[-1]
JobNameOfPath(path) == Last(Split(Strip(path, CharsOf(dot_ajp)), "/"))

\* a scan that takes what is left as a last name even when nothing is left
ScanFrom_trailing(raw, jn, st, next_ix) ==
    IF next_ix > -1
    THEN [st EXCEPT
            !.raw_recipe =
                @ \o <<Tok(st.start_ix, Slice(raw, st.start_ix, next_ix)),
                       Tok(next_ix, Slice(raw, next_ix, next_ix + term_len))>>,
            !.start_ix = next_ix + term_len]
    ELSE [st EXCEPT
            !.raw_recipe = Append(@, Tok(st.start_ix, SliceFrom(raw, st.start_ix))),
            !.start_ix = -1]

\* a scan that leaves the cursor where it is when it finds a 0x00
ScanFrom_stuck(raw, jn, st, next_ix) ==
    IF next_ix > -1
    THEN [st EXCEPT
            !.raw_recipe =
                @ \o <<Tok(st.start_ix, Slice(raw, st.start_ix, next_ix)),
                       Tok(next_ix, Slice(raw, next_ix, next_ix + term_len))>>]
    ELSE IF st.start_ix < Len(raw) - 1
    THEN [st EXCEPT
            !.raw_recipe = Append(@, Tok(st.start_ix, SliceFrom(raw, st.start_ix))),
            !.start_ix = -1]
    ELSE [st EXCEPT
            !.warned = Append(@,
                Warn("Job file may be corrupt, missing final recipe step: ", jn)),
            !.start_ix = -1]

\* a scan that resumes one byte after the 0x00 it found
ScanFrom_overlap(raw, jn, st, next_ix) ==
    IF next_ix > -1
    THEN [st EXCEPT
            !.raw_recipe =
                @ \o <<Tok(st.start_ix, Slice(raw, st.start_ix, next_ix)),
                       Tok(next_ix, Slice(raw, next_ix, next_ix + term_len))>>,
            !.start_ix = next_ix + 1]
    ELSE IF st.start_ix < Len(raw) - 1
    THEN [st EXCEPT
            !.raw_recipe = Append(@, Tok(st.start_ix, SliceFrom(raw, st.start_ix))),
            !.start_ix = -1]
    ELSE [st EXCEPT
            !.warned = Append(@,
                Warn("Job file may be corrupt, missing final recipe step: ", jn)),
            !.start_ix = -1]

\* the scan loop's body once next_ix is known; st = [start_ix, raw_recipe, warned]
ScanFrom(raw, jn, st, next_ix) ==
    IF next_ix > -1
    THEN [st EXCEPT
            !.raw_recipe =
                @ \o <<Tok(st.start_ix, Slice(raw, st.start_ix, next_ix)),
                       Tok(next_ix, Slice(raw, next_ix, next_ix + term_len))>>,
            !.start_ix = next_ix + term_len]
    ELSE IF st.start_ix < Len(raw) - 1
    THEN [st EXCEPT
            !.raw_recipe = Append(@, Tok(st.start_ix, SliceFrom(raw, st.start_ix))),
            !.start_ix = -1]
    ELSE [st EXCEPT
            !.warned = Append(@,
                Warn("Job file may be corrupt, missing final recipe step: ", jn)),
            !.start_ix = -1]

\* one pass through the body of the scan loop
ScanStep(raw, jn, st) ==
    IF st.start_ix = 0
    THEN [st EXCEPT !.raw_recipe = Append(@, Tok(0, Slice(raw, 0, init_len))),
                    !.start_ix = init_len]
    ELSE ScanFrom(raw, jn, st, Find(raw, term_char, st.start_ix + 1))

\* while start_ix > -1
RECURSIVE Scan(_, _, _)
Scan(raw, jn, st) ==
    IF st.start_ix > -1 THEN Scan(raw, jn, ScanStep(raw, jn, st)) ELSE st

\* [rstep[1] for rstep in raw_recipe if rstep[1][0] != '\x00'];
\* rstep[1][0] raises IndexError on an empty text
StripRaises(toks) == \E i \in 1..Len(toks) : toks[i].text = <<>>

PushNew(name, rest) ==
    IF rest # <<>> /\ rest[1] = name THEN rest ELSE <<name>> \o rest

\* a cleaning pass that also collapses a name repeated back to back
RECURSIVE StripExtra_dedup(_)
StripExtra_dedup(toks) ==
    IF toks = <<>> THEN <<>>
    ELSE IF Head(toks).text[1] # term_char
    THEN PushNew(Head(toks).text, StripExtra_dedup(Tail(toks)))
    ELSE StripExtra_dedup(Tail(toks))

RECURSIVE StripExtra(_)
StripExtra(toks) ==
    IF toks = <<>> THEN <<>>
    ELSE IF Head(toks).text[1] # term_char
    THEN <<Head(toks).text>> \o StripExtra(Tail(toks))
    ELSE StripExtra(Tail(toks))

\* the warning of an empty parsed_recipe
WarnIfEmpty(parsed_recipe, w) ==
    IF Len(parsed_recipe) = 0
    THEN Append(w, Warn("Job file may be corrupt, no recipe steps found!", <<>>))
    ELSE w

\* a return without the 'Start' step
CleanRecipe_nosentinel(toks, w, flag, parsed_recipe) ==
    [raised |-> "none", file_read |-> TRUE, raw_recipe |-> toks,
     retval |-> IF flag THEN toks ELSE parsed_recipe,
     warned |-> WarnIfEmpty(parsed_recipe, w)]

\* parse_jobfile after the scan: the cleaning pass, the sentinel, the return
CleanRecipe(toks, w, flag, parsed_recipe) ==
    [raised |-> "none", file_read |-> TRUE, raw_recipe |-> toks,
     retval |-> IF flag THEN toks ELSE <<Start>> \o parsed_recipe,
     warned |-> WarnIfEmpty(parsed_recipe, w)]

AfterScan(st, flag) ==
    IF StripRaises(st.raw_recipe)
    THEN [raised |-> "IndexError", file_read |-> TRUE,
          raw_recipe |-> st.raw_recipe, retval |-> <<>>, warned |-> st.warned]
    ELSE CleanRecipe(st.raw_recipe, st.warned, flag, StripExtra(st.raw_recipe))

\* parse_jobfile(file_path, return_raw_recipe) with raw the text of the file:
\* [raised, file_read, raw_recipe, retval, warned]
parse_jobfile(path, raw, flag) ==
    IF ~HasAjpExtension(path)
    THEN [raised |-> "NameError", file_read |-> FALSE, raw_recipe |-> <<>>,
          retval |-> <<>>, warned |-> <<>>]
    ELSE AfterScan(Scan(raw, JobNameOfPath(path),
                        [start_ix |-> 0, raw_recipe |-> <<>>, warned |-> <<>>]),
                   flag)

-----------------------------------------------------------------------------
(* Job files as the tool writes them, free-text job files, and paths. *)

NameChars == {"A", "B"}
RecipeNames == SeqsOf(NameChars, 1, MaxNameLen)
Initializers ==
    {<<"NUL", "NUL", "NUL", "NUL", "NUL", "NUL", "NUL", "NUL">>,
     <<"NUL", "NUL", "NUL", "A", "NUL", "NUL", "NUL", "B">>}
Terminators ==
    {<<"NUL", "NUL", "NUL", "A">>, <<"NUL", "A", "B", "A">>}

\* initializer, then each name followed by the terminator; last_term tells
\* whether the last name has one
RECURSIVE WriteSteps(_, _, _)
WriteSteps(ns, term, last_term) ==
    IF ns = <<>> THEN <<>>
    ELSE IF Len(ns) = 1 THEN ns[1] \o (IF last_term THEN term ELSE <<>>)
    ELSE ns[1] \o term \o WriteSteps(Tail(ns), term, last_term)

WriteJob(init, ns, term, last_term) == init \o WriteSteps(ns, term, last_term)

FreeChars == {"NUL", "A"}
PathChars == {".", "a", "j", "p", "x"}
good_path == <<"j", "/", "x">> \o dot_ajp

InitParse ==
    /\ pc = "call"
    /\ \/ /\ file_path = good_path
          /\ names \in SeqsOf(RecipeNames, 1, MaxNames)
          /\ \E init \in Initializers, term \in Terminators, last_term \in BOOLEAN :
                 raw_job = WriteJob(init, names, term, last_term)
          /\ return_raw_recipe \in BOOLEAN
       \/ /\ file_path = good_path
          /\ names = <<>>
          /\ raw_job \in SeqsOf(FreeChars, 0, MaxBufLen)
          /\ return_raw_recipe \in BOOLEAN
       \/ /\ file_path \in SeqsOf(PathChars, 0, MaxPathLen)
          /\ names = <<>>
          /\ raw_job \in {<<>>, <<"NUL", "NUL", "NUL", "A", "NUL", "NUL", "NUL", "B", "A", "B">>}
          /\ return_raw_recipe = FALSE
    /\ start_ix = 0 /\ raw_recipe = <<>> /\ retval = <<>> /\ file_read = FALSE
    /\ NameIdle /\ TreeIdle /\ CatalogIdle /\ FilterIdle /\ KeysIdle /\ Quiet

\* the caller's view of r = [raised, file_read, raw_recipe, retval, warned]
Returned(r) ==
    /\ raised' = r.raised
    /\ file_read' = r.file_read
    /\ raw_recipe' = r.raw_recipe
    /\ retval' = r.retval
    /\ warned' = warned \o r.warned

\* parse_jobfile(file_path, return_raw_recipe)
ParseJobfile ==
    /\ pc = "call"
    /\ pc' = "parse_jobfile"
    /\ Returned(parse_jobfile(file_path, raw_job, return_raw_recipe))
    /\ UNCHANGED <<file_path, raw_job, names, return_raw_recipe, start_ix,
                   nameVars, treeVars, keysVars, catalogVars, filterVars>>

NextParse == ParseJobfile

SpecParse == InitParse /\ [][NextParse]_vars

\* the job file was written from names, every name followed by a terminator
\* except possibly a last name of at least 2 characters
WrittenWell ==
    /\ names # <<>>
    /\ \E init \in Initializers, term \in Terminators, last_term \in BOOLEAN :
           /\ raw_job = WriteJob(init, names, term, last_term)
           /\ last_term \/ Len(names[Len(names)]) >= 2

\* C3: parse_jobfile of a well-formed job file written from n1..nk returns
\* exactly ['Start', n1, ..., nk], repeated names kept.
C3_RoundTrip ==
    (pc = "parse_jobfile" /\ WrittenWell /\ ~return_raw_recipe) =>
        /\ raised = "none"
        /\ retval = <<Start>> \o names

\* a name repeated back to back, the last one without a terminator, comes back twice
C3_Witness ==
    /\ pc = "parse_jobfile" /\ WrittenWell /\ ~return_raw_recipe
    /\ names = << <<"A", "B">>, <<"A", "B">> >>
    /\ EndsWith(raw_job, <<"A", "B">>)
    /\ retval = <<Start, <<"A", "B">>, <<"A", "B">> >>

\* C5: for every content of a file named *.ajp, parse_jobfile does not raise
\* and returns a list whose element 0 is 'Start'.
C5_NeverRaises ==
    (pc = "parse_jobfile" /\ EndsWith(file_path, dot_ajp)) =>
        /\ raised = "none"
        /\ ~return_raw_recipe => (Len(retval) >= 1 /\ retval[1] = Start)

\* the text after the last '.' of a path (the whole path when it has none)
AfterLastDot(path) == SliceFrom(path, RFind(path, ".") + 1)

\* C6: a path whose text after the last '.' is not 'ajp' raises at once (no file
\* read, no warning, nothing returned); a path ending in '.ajp' never raises it.
C6_WrongExtensionRaises ==
    pc = "parse_jobfile" =>
        /\ AfterLastDot(file_path) # ajp =>
               /\ raised = "NameError"
               /\ ~file_read
               /\ warned = <<>>
               /\ retval = <<>> /\ raw_recipe = <<>>
        /\ EndsWith(file_path, dot_ajp) => raised # "NameError"

C6_Witness ==
    /\ pc = "parse_jobfile"
    /\ file_path = <<".", "x", "a", "j", "p">>
    /\ raised = "NameError" /\ ~file_read

-----------------------------------------------------------------------------
(* Directory listings, build_jobs_dict and build_logs_list. *)

File(path, text) == [path |-> path, text |-> text]

\* the files of a listing whose name ends with extension, in walk order
nested_glob(tree, extension) ==
    SelectSeq(tree, LAMBDA f : EndsWith(Basename(f.path), extension))

\* os.path.basename(jobfile).strip('.ajp')
JobKey(path) == Strip(Basename(path), CharsOf(dot_ajp))

\* on a failing file, stores the bare sentinel under the job's name
JobsStored_keep(acc, jobfile, r) ==
    IF r.raised = "none"
    THEN [jobs |-> DictSet(acc.jobs, JobKey(jobfile.path), r.retval),
          warned |-> acc.warned \o r.warned]
    ELSE [jobs |-> DictSet(acc.jobs, JobKey(jobfile.path), <<Start>>),
          warned |-> Append(acc.warned \o r.warned,
                            Warn("Unable to parse ", jobfile.path))]

\* try: jobs[job_name] = recipe / except: warn, with r what parse_jobfile did
JobsStored(acc, jobfile, r) ==
    IF r.raised = "none"
    THEN [jobs |-> DictSet(acc.jobs, JobKey(jobfile.path), r.retval),
          warned |-> acc.warned \o r.warned]
    ELSE [jobs |-> acc.jobs,
          warned |-> Append(acc.warned \o r.warned,
                            Warn("Unable to parse ", jobfile.path))]

\* the body of the loop over jobfiles; acc = [jobs, warned]
JobsStep(acc, jobfile) ==
    JobsStored(acc, jobfile, parse_jobfile(jobfile.path, jobfile.text, FALSE))

RECURSIVE JobsLoop(_, _)
JobsLoop(acc, jobfiles) ==
    IF jobfiles = <<>> THEN acc
    ELSE JobsLoop(JobsStep(acc, Head(jobfiles)), Tail(jobfiles))

\* build_jobs_dict(path) with tree the listing of path: [jobs, warned]
build_jobs_dict(tree) ==
    JobsLoop([jobs |-> EmptyDict, warned |-> <<>>], nested_glob(tree, dot_ajp))

\* the line that starts at offset a, with its newline, '' at end of file
LineFrom(text, a, e) ==
    IF e = -1 THEN SliceFrom(text, a) ELSE Slice(text, a, e + 1)

ReadLine(text, a) == LineFrom(text, a, Find(text, "\n", a))

\* f.readline() twice: the text of the second line
SecondLine(text) == ReadLine(text, Len(ReadLine(text, 0)))

Digits == {"1", "2"}
Blanks == {" ", "\n"}
DigitValue(c) == IF c = "1" THEN 1 ELSE 2

RECURSIVE ReadNumber(_, _)
ReadNumber(s, n) ==
    IF s = <<>> THEN n
    ELSE IF Head(s) \in Digits THEN ReadNumber(Tail(s), 10 * n + DigitValue(Head(s)))
    ELSE ReadNumber(Tail(s), n)

\* dateutil.parser.parse(text): a timestamp when the text is digits and blanks
\* with at least one digit, a ValueError otherwise
dp_parse(s) ==
    IF /\ \A i \in 1..Len(s) : s[i] \in Digits \cup Blanks
       /\ \E i \in 1..Len(s) : s[i] \in Digits
    THEN Some(ReadNumber(s, 0))
    ELSE None

LogEntry(job, datetime, path, recipe) ==
    [job |-> job, datetime |-> datetime, path |-> path, recipe |-> recipe]

\* places e before the entries that are not later than it
RECURSIVE InsertDesc_ties(_, _)
InsertDesc_ties(sorted, e) ==
    IF sorted = <<>> THEN <<e>>
    ELSE IF Head(sorted).datetime <= e.datetime THEN <<e>> \o sorted
    ELSE <<Head(sorted)>> \o InsertDesc_ties(Tail(sorted), e)

\* places e after every entry that is not earlier than it
RECURSIVE InsertDesc(_, _)
InsertDesc(sorted, e) ==
    IF sorted = <<>> THEN <<e>>
    ELSE IF Head(sorted).datetime < e.datetime THEN <<e>> \o sorted
    ELSE <<Head(sorted)>> \o InsertDesc(Tail(sorted), e)

\* list.sort(key = datetime, reverse = True): stable, descending
RECURSIVE SortDesc(_, _)
SortDesc(sorted, rest) ==
    IF rest = <<>> THEN sorted
    ELSE SortDesc(InsertDesc(sorted, Head(rest)), Tail(rest))

\* try: parse, look the job up, append / except: warn
LogsParsed(acc, logfile, catalog, name, datetime) ==
    IF datetime # None
    THEN [acc EXCEPT !.logs = Append(@,
             LogEntry(name, datetime[1], logfile.path, DictGet(catalog, name)))]
    ELSE [acc EXCEPT !.warned = Append(@, Warn("Could not parse: ", logfile.path))]

\* date, time = firstline.split('\t')[0:2], outside the try: fewer than two
\* fields cannot be unpacked
LogsUnpacked(acc, logfile, catalog, fields) ==
    IF Len(fields) # 2
    THEN [acc EXCEPT !.raised = "ValueError"]
    ELSE LogsParsed(acc, logfile, catalog, get_job(logfile.path),
                    dp_parse(fields[1] \o <<" ">> \o fields[2]))

\* the body of the loop over logfiles; acc = [raised, logs, warned]
LogsStep(acc, logfile, catalog) ==
    LogsUnpacked(acc, logfile, catalog,
                 Slice(Split(SecondLine(logfile.text), "\t"), 0, 2))

RECURSIVE LogsLoop(_, _, _)
LogsLoop(acc, logfiles, catalog) ==
    IF logfiles = <<>> \/ acc.raised # "none" THEN acc
    ELSE LogsLoop(LogsStep(acc, Head(logfiles), catalog), Tail(logfiles), catalog)

\* logs.sort(...) and return; nothing is returned when the loop raised
LogsSorted(acc, catalog) ==
    [raised |-> acc.raised,
     logs |-> IF acc.raised = "none" THEN SortDesc(<<>>, acc.logs) ELSE <<>>,
     warned |-> acc.warned,
     jobs |-> catalog]

LogsOver(tree, catalog, w0) ==
    LogsSorted(LogsLoop([raised |-> "none", logs |-> <<>>, warned |-> w0],
                        nested_glob(tree, dot_dlg), catalog),
               catalog)

\* if jobs is None: warn and jobs = build_jobs_dict(path)
LogsLocated(tree, located) ==
    LogsOver(tree, located.jobs,
             <<Warn("Attempting to locate jobs in path", <<>>)>> \o located.warned)

\* build_logs_list(path, jobs) with tree the listing of path and jobs_arg the
\* optional catalog: [raised, logs, warned, jobs]
build_logs_list(tree, jobs_arg) ==
    IF jobs_arg = None
    THEN LogsLocated(tree, build_jobs_dict(tree))
    ELSE LogsOver(tree, jobs_arg[1], <<>>)

-----------------------------------------------------------------------------
(* The directories the catalog operations are run on. *)

nul8 == <<"NUL", "NUL", "NUL", "NUL", "NUL", "NUL", "NUL", "NUL">>
JobTexts ==
    {<<>>,
     nul8 \o <<"A">> \o <<"NUL", "NUL", "NUL", "A">>,
     nul8 \o <<"A", "B">>}
JobPaths ==
    {<<"x">> \o dot_ajp, <<"d", "x">> \o dot_ajp, <<"s", "/", "x">> \o dot_ajp,
     <<"a">> \o dot_ajp}

LogTexts ==
    {<<"h", "\n">>,
     <<"h", "\n", "1", "\n">>,
     <<"h", "\n", "1", "\t", "1", "\n">>,
     <<"h", "\n", "1", "\t", "2", "\n">>,
     <<"h", "\n", "x", "\t", "1", "\n">>}
LogPaths ==
    {<<"x", "_", "1", "_", "1">> \o dot_dlg,
     <<"l", "/", "d", "x", "_", "1", "_", "1">> \o dot_dlg,
     <<"q", "_", "1", "_", "1">> \o dot_dlg}

\* listings of at most max files, no path twice
Trees(paths, texts, max) ==
    {t \in SeqsOf([path : paths, text : texts], 0, max) :
        \A i, j \in 1..Len(t) : t[i].path = t[j].path => i = j}

\* the job directories the log index is built against
JobDirs ==
    {<<>>,
     <<File(<<"x">> \o dot_ajp, nul8 \o <<"A", "B">>)>>,
     <<File(<<"d", "x">> \o dot_ajp, nul8 \o <<"A", "B">>)>>,
     <<File(<<"x">> \o dot_ajp, <<>>)>>,
     <<File(<<"d", "x">> \o dot_ajp, nul8 \o <<"A">> \o <<"NUL", "NUL", "NUL", "A">>),
       File(<<"x">> \o dot_ajp, nul8 \o <<"A", "B">>)>>}

InitJobs ==
    /\ pc = "call"
    /\ jobtree \in Trees(JobPaths, JobTexts, MaxJobFiles)
    /\ logtree = <<>>
    /\ NameIdle /\ ParseIdle /\ CatalogIdle /\ FilterIdle /\ KeysIdle /\ Quiet

InitLogs ==
    /\ pc = "call"
    /\ jobtree \in JobDirs
    /\ logtree \in Trees(LogPaths, LogTexts, MaxLogFiles)
    /\ NameIdle /\ ParseIdle /\ CatalogIdle /\ FilterIdle /\ KeysIdle /\ Quiet

\* the caller's view of r = [jobs, warned]
JobsBuilt(r) ==
    /\ jobs' = r.jobs
    /\ warned' = warned \o r.warned

\* the caller's view of r = [raised, logs, warned, jobs]; jobs is the catalog used
LogsBuilt(r) ==
    /\ logs' = r.logs
    /\ raised' = r.raised
    /\ warned' = warned \o r.warned
    /\ jobs' = r.jobs

\* jobs = build_jobs_dict(jobpath)
BuildJobsDict ==
    /\ pc = "call"
    /\ pc' = "build_jobs_dict"
    /\ JobsBuilt(build_jobs_dict(jobtree))
    /\ UNCHANGED <<logs, raised, nameVars, parseVars, treeVars, keysVars, filterVars>>

\* logs = build_logs_list(path, jobs)
BuildLogsList ==
    /\ pc = "build_jobs_dict"
    /\ pc' = "build_logs_list"
    /\ LogsBuilt(build_logs_list(logtree, Some(jobs)))
    /\ UNCHANGED <<nameVars, parseVars, treeVars, keysVars, filterVars>>

\* logs = build_logs_list(root), jobs left None, root holding both directories
BuildLogsListAlone ==
    /\ pc = "call"
    /\ pc' = "build_logs_list_alone"
    /\ LogsBuilt(build_logs_list(jobtree \o logtree, None))
    /\ UNCHANGED <<nameVars, parseVars, treeVars, keysVars, filterVars>>

NextJobs == BuildJobsDict

SpecJobs == InitJobs /\ [][NextJobs]_vars

NextLogs == BuildJobsDict \/ BuildLogsList \/ BuildLogsListAlone

SpecLogs == InitLogs /\ [][NextLogs]_vars

\* parse_jobfile raises on this job file
ParseFails(f) == parse_jobfile(f.path, f.text, FALSE).raised # "none"

\* the first data row of this log gives a timestamp
RowFields(f) == Split(SecondLine(f.text), "\t")
RowParses(f) ==
    /\ Len(RowFields(f)) >= 2
    /\ dp_parse(RowFields(f)[1] \o <<" ">> \o RowFields(f)[2]) # None

PathsOf(files) == [i \in 1..Len(files) |-> files[i].path]
ArgsOf(ws) == [i \in 1..Len(ws) |-> ws[i].arg]
Unparsed == SelectSeq(warned, LAMBDA w : w.msg = "Unable to parse ")

\* C7: build_jobs_dict runs to completion over all files whatever fails to
\* parse; no entry comes from a failing file, the other entries are as if the
\* failing files were absent, and each failing path gets one warning.
C7_FailuresIsolated ==
    pc = "build_jobs_dict" =>
        LET jobfiles == nested_glob(jobtree, dot_ajp)
            good == SelectSeq(jobfiles, LAMBDA f : ~ParseFails(f))
            bad == SelectSeq(jobfiles, LAMBDA f : ParseFails(f))
        IN  /\ raised = "none"
            /\ jobs = build_jobs_dict(good).jobs
            /\ \A k \in DOMAIN jobs :
                   \E i \in 1..Len(good) :
                       /\ JobKey(good[i].path) = k
                       /\ jobs[k] = parse_jobfile(good[i].path, good[i].text, FALSE).retval
            /\ ArgsOf(Unparsed) = PathsOf(bad)

\* a failing file discovered before a good one: the good one is the only entry
C7_Witness ==
    /\ pc = "build_jobs_dict"
    /\ Len(jobtree) = 2
    /\ ParseFails(jobtree[1]) /\ ~ParseFails(jobtree[2])
    /\ DOMAIN jobs = {JobKey(jobtree[2].path)}
    /\ ArgsOf(Unparsed) = <<jobtree[1].path>>

LogsDone == pc \in {"build_logs_list", "build_logs_list_alone"}
Logfiles == nested_glob(logtree, dot_dlg)
EntriesOf(path) == {k \in 1..Len(logs) : logs[k].path = path}

\* job names and the logs named after them
CorrNames == {<<"x">>, <<"d", "x">>, <<"q">>}
IsLogOf(path, job) ==
    \E s1 \in Suffixes, s2 \in Suffixes : Basename(path) = LogPath(<<>>, job, s1, s2)

\* C2: with a parsable J.ajp in the job directory and a log J_<s1>_<s2>.dlg
\* with a parsable first data row, build_logs_list(path, build_jobs_dict(jobpath))
\* returns an entry for that log with job J and the catalog's recipe for J.
\* (Stated for the calls that return.)
C2_EndToEnd ==
    (pc = "build_logs_list" /\ raised = "none") =>
        \A job \in CorrNames, a \in 1..Len(jobtree), b \in 1..Len(logtree) :
            ( /\ Basename(jobtree[a].path) = job \o dot_ajp
              /\ ~ParseFails(jobtree[a])
              /\ IsLogOf(logtree[b].path, job)
              /\ RowParses(logtree[b]) )
            => \E k \in EntriesOf(logtree[b].path) :
                   /\ logs[k].job = job
                   /\ job \in DOMAIN jobs
                   /\ logs[k].recipe = Some(jobs[job])

\* C8: a log whose first data row gives no timestamp (missing, fewer than two
\* fields, unparsable text) is warned about and left out, every other log is
\* returned, and the batch call does not raise.
C8_MalformedLogSkipped ==
    LogsDone =>
        /\ raised = "none"
        /\ \A i \in 1..Len(Logfiles) :
               IF RowParses(Logfiles[i])
               THEN EntriesOf(Logfiles[i].path) # {}
               ELSE /\ EntriesOf(Logfiles[i].path) = {}
                    /\ \E w \in 1..Len(warned) :
                           /\ warned[w].msg = "Could not parse: "
                           /\ warned[w].arg = Logfiles[i].path

\* C9: every log whose timestamp parses yields exactly one entry of the
\* returned list, with recipe None when its derived job name is no key of the
\* catalog and the catalog's value when it is.
C9_OrphanKept ==
    LogsDone =>
        \A i \in 1..Len(Logfiles) :
            RowParses(Logfiles[i]) =>
                /\ Cardinality(EntriesOf(Logfiles[i].path)) = 1
                /\ \A k \in EntriesOf(Logfiles[i].path) :
                       logs[k].recipe =
                           IF get_job(Logfiles[i].path) \in DOMAIN jobs
                           THEN Some(jobs[get_job(Logfiles[i].path)])
                           ELSE None

\* the place of a log in the order of discovery
Discovered(path) == CHOOSE k \in 1..Len(Logfiles) : Logfiles[k].path = path

\* C10: the returned list is ordered by datetime, non-increasing, and entries
\* with equal timestamps keep the order in which their logs were discovered.
C10_SortedStable ==
    (LogsDone /\ raised = "none") =>
        \A i, j \in 1..Len(logs) :
            i < j =>
                /\ logs[i].datetime >= logs[j].datetime
                /\ logs[i].datetime = logs[j].datetime =>
                       Discovered(logs[i].path) < Discovered(logs[j].path)

\* two logs with the same timestamp, returned in discovery order
C10_Witness ==
    /\ pc = "build_logs_list" /\ raised = "none"
    /\ Len(logs) = 2
    /\ logs[1].datetime = logs[2].datetime
    /\ PathsOf(logs) = PathsOf(Logfiles)
-----------------------------------------------------------------------------
(* filter_logs (logfile_tools.py): the logs that ran a recipe, and its layers. *)
(* logs_dict is the dict in key order, each value                            *)
(* [key, recipe (or None), data (the 'data' key is there), layers (or None)]. *)

\* layers.append(rix): the index in the list as it is
LayerOf_rix(rix) == rix

\* layers.append(rix + 1)
LayerOf(rix) == rix + 1

\* for rix, recipe in enumerate(...): if recipe == target_recipe: append
RECURSIVE LayersFrom(_, _, _)
LayersFrom(recipe, target, rix) ==
    IF rix >= Len(recipe) THEN <<>>
    ELSE IF recipe[rix + 1] = target
    THEN <<LayerOf(rix)>> \o LayersFrom(recipe, target, rix + 1)
    ELSE LayersFrom(recipe, target, rix + 1)

\* the 'layers' dict of a kept log once read_layers has run
LayersSet(layers, recipe, target, force) ==
    IF target \notin DOMAIN layers \/ force
    THEN DictSet(layers, target, LayersFrom(recipe, target, 0))
    ELSE layers

LayersRead(e, target, force) ==
    Some(LayersSet(IF e.layers = None THEN EmptyDict ELSE e.layers[1],
                   e.recipe[1], target, force))

\* the value of a kept log after the body of the loop
Kept(e, target, rd, rl, force) ==
    [e EXCEPT !.data = IF rd THEN TRUE ELSE @,
              !.layers = IF rl THEN LayersRead(e, target, force) ELSE @]

Member(x, list) == \E i \in 1..Len(list) : list[i] = x

\* the body of the loop over logs_dict.keys(); acc = [raised, logs_dict, filtered_logs]
FilterStep(acc, k, target, rd, rl, force) ==
    IF acc.logs_dict[k].recipe = None
    THEN \* target_recipe in None
         [acc EXCEPT !.raised = "TypeError"]
    ELSE IF Member(target, acc.logs_dict[k].recipe[1])
    THEN [acc EXCEPT
            !.logs_dict[k] = Kept(@, target, rd, rl, force),
            !.filtered_logs = Append(@, Kept(acc.logs_dict[k], target, rd, rl, force))]
    ELSE acc

RECURSIVE FilterLoop(_, _, _, _, _, _)
FilterLoop(acc, k, target, rd, rl, force) ==
    IF k > Len(acc.logs_dict) \/ acc.raised # "none" THEN acc
    ELSE FilterLoop(FilterStep(acc, k, target, rd, rl, force), k + 1,
                    target, rd, rl, force)

\* filter_logs(logs_dict, target_recipe, read_data, read_layers, force_overwrite):
\* [raised, logs_dict, filtered_logs]; the kept values are the caller's own
filter_logs(d, target, rd, rl, force) ==
    FilterLoop([raised |-> "none", logs_dict |-> d, filtered_logs |-> <<>>],
               1, target, rd, rl, force)

StepA == <<"A">>
StepB == <<"B">>
StepZ == <<"Z">>
Recipes == SeqsOf({Start, StepA, StepB}, 0, MaxRecipeLen)
Targets == {StepA, StepZ, Start}
Log(key, recipe, layers) ==
    [key |-> key, recipe |-> recipe, data |-> FALSE, layers |-> layers]
FirstLogs ==
    {Log(<<"1">> \o dot_dlg, recipe, layers) :
        recipe \in {None} \cup {Some(r) : r \in Recipes},
        layers \in {None, Some(EmptyDict), Some([t \in {StepA} |-> <<9>>])}}
OtherLogs ==
    {Log(<<"2">> \o dot_dlg, recipe, None) : recipe \in {None, Some(<<Start, StepA>>)}}

InitFilter ==
    /\ pc = "call"
    /\ logs_dict \in {<<e>> : e \in FirstLogs}
                     \cup {<<e, o>> : e \in FirstLogs, o \in OtherLogs}
    /\ target_recipe \in Targets
    /\ read_data \in BOOLEAN /\ read_layers \in BOOLEAN /\ force_overwrite \in BOOLEAN
    /\ filtered_logs = <<>>
    /\ NameIdle /\ ParseIdle /\ TreeIdle /\ CatalogIdle /\ KeysIdle /\ Quiet

\* the caller's view of r = [raised, logs_dict, filtered_logs]
Filtered(r) ==
    /\ raised' = r.raised
    /\ logs_dict' = r.logs_dict
    /\ filtered_logs' = IF r.raised = "none" THEN r.filtered_logs ELSE <<>>

\* filtered_logs = filter_logs(logs_dict, target_recipe, ...)
FilterLogs ==
    /\ pc = "call"
    /\ pc' = "filter_logs"
    /\ Filtered(filter_logs(logs_dict, target_recipe, read_data, read_layers,
                            force_overwrite))
    /\ UNCHANGED <<target_recipe, read_data, read_layers, force_overwrite, warned,
                   nameVars, parseVars, treeVars, keysVars, catalogVars>>

NextFilter == FilterLogs

SpecFilter == InitFilter /\ [][NextFilter]_vars

\* the call computes the layers of log k afresh
Computes(k) ==
    /\ read_layers
    /\ logs_dict[k].recipe # None
    /\ \/ force_overwrite
       \/ logs_dict[k].layers = None
       \/ target_recipe \notin DOMAIN logs_dict[k].layers[1]

\* the tuple t lists exactly the numbers of S, each once
Lists(t, S) == {t[i] : i \in 1..Len(t)} = S /\ Len(t) = Cardinality(S)

-----------------------------------------------------------------------------
(* The raw scan of parse_jobfile. *)

ParseDone == pc = "parse_jobfile" /\ HasAjpExtension(file_path)

\* no 0x00 at or after offset init_len, in a buffer that holds an initializer
NoNulAfterInit ==
    /\ Len(raw_job) >= init_len
    /\ \A i \in (init_len + 1)..Len(raw_job) : raw_job[i] # term_char

\* C11: a buffer of 8 or more bytes with no 0x00 at or after byte 8 scans to
\* the initializer and one name token (8, raw_job[8:]) when bytes follow the
\* initializer, and a warning is reported exactly when none follow.
C11_OneTrailingName ==
    (ParseDone /\ NoNulAfterInit) =>
        /\ Len(raw_job) > init_len =>
               raw_recipe = <<Tok(0, Slice(raw_job, 0, init_len)),
                              Tok(init_len, SliceFrom(raw_job, init_len))>>
        /\ (warned # <<>>) <=> (Len(raw_job) = init_len)

\* the job file was written from names, every name followed by a terminator
EndsAtTerminator ==
    /\ names # <<>>
    /\ \E init \in Initializers, term \in Terminators :
           raw_job = WriteJob(init, names, term, TRUE)

\* C12: for a buffer that ends exactly at the end of a 4-byte terminator, the
\* raw token list ends with that terminator token, nothing is emitted after
\* it, and no token has an empty text.
C12_NoTrailingToken ==
    (ParseDone /\ EndsAtTerminator) =>
        /\ raised = "none"
        /\ raw_recipe # <<>>
        /\ Last(raw_recipe) =
               Tok(Len(raw_job) - term_len,
                   SliceFrom(raw_job, Len(raw_job) - term_len))
        /\ Last(raw_recipe).text[1] = term_char
        /\ \A i \in 1..Len(raw_recipe) : raw_recipe[i].text # <<>>

\* two names, each with its terminator; the scan stops on the last terminator
C12_Witness ==
    /\ ParseDone /\ EndsAtTerminator /\ return_raw_recipe
    /\ Len(names) = 2
    /\ Len(retval) = 5
    /\ retval[5].ix + term_len = Len(raw_job)
    /\ retval[5].text = <<"NUL", "A", "B", "A">>

\* the terminator tokens of the scan: the 0x00 tokens after the initializer
TerminatorTokens ==
    {i \in 1..Len(raw_recipe) :
        raw_recipe[i].ix >= init_len /\ raw_recipe[i].text[1] = term_char}

\* the last name of the written job file has no terminator
LastUnterminated ==
    \E init \in Initializers, term \in Terminators :
        raw_job = WriteJob(init, names, term, FALSE)

\* C13: for every well-formed job buffer the list parse_jobfile returns has
\* as many elements as the scan emitted terminator tokens, plus 1.
C13_LengthIsTerminatorsPlusOne ==
    (ParseDone /\ WrittenWell /\ ~return_raw_recipe) =>
        Len(retval) = Cardinality(TerminatorTokens) + 1

\* C13, amended: the returned list has one element per terminator token plus
\* 'Start', and one more when the last name has no terminator.
C13_LengthCountsLastName ==
    (ParseDone /\ WrittenWell /\ ~return_raw_recipe) =>
        /\ raised = "none"
        /\ Len(retval) = Cardinality(TerminatorTokens) + 1
                         + (IF LastUnterminated THEN 1 ELSE 0)
        /\ Len(retval) = Len(names) + 1

\* two names, the last one unterminated: one terminator token, three elements
C13_Witness ==
    /\ ParseDone /\ WrittenWell /\ ~return_raw_recipe
    /\ LastUnterminated
    /\ Cardinality(TerminatorTokens) = 1
    /\ Len(retval) = 3

\* the name tokens of the scan: the loop appends the initializer, then a name
\* and its terminator for every 0x00 found, then a last name if bytes are left
NameTokens(toks) == [i \in 1..(Len(toks) \div 2) |-> toks[2 * i].text]

\* C14: for every input buffer the list returned after 'Start' is exactly the
\* name tokens of the raw scan in offset order; the initializer and the
\* terminators are not in it and no name token is missing.
C14_BodyIsNameTokens ==
    (ParseDone /\ raised = "none" /\ ~return_raw_recipe) =>
        retval = <<Start>> \o NameTokens(raw_recipe)

-----------------------------------------------------------------------------
(* The keys and the values of the job catalog. *)

JobsDone == pc = "build_jobs_dict"

\* <name> of a path <dir>/<name>.ajp
StemOf(path) == Slice(Basename(path), 0, Len(Basename(path)) - Len(dot_ajp))

\* the discovered job files that parse
Parsed == SelectSeq(nested_glob(jobtree, dot_ajp), LAMBDA f : ~ParseFails(f))

\* C15: the keys of the catalog are exactly the names <name> of the job files
\* <dir>/<name>.ajp that parse, whatever characters <name> begins or ends with.
C15_KeyIsBaseName ==
    JobsDone => DOMAIN jobs = {StemOf(Parsed[i].path) : i \in 1..Len(Parsed)}

\* the warnings about a file: all but the notice that jobs are being located
FileWarnings ==
    SelectSeq(warned, LAMBDA w : w.msg # "Attempting to locate jobs in path")

\* C16: every warning issued while parsing job files and building the catalog
\* and the log index carries the path of the offending file.
C16_WarningsCarryPath ==
    pc # "call" =>
        \A i \in 1..Len(FileWarnings) :
            \E f \in 1..Len(jobtree \o logtree) :
                FileWarnings[i].arg = (jobtree \o logtree)[f].path

\* the discovered job files stored under key k, in walk order
FilesOf(k) == SelectSeq(nested_glob(jobtree, dot_ajp), LAMBDA f : JobKey(f.path) = k)

SharedKeys ==
    {k \in {JobKey(jobtree[i].path) : i \in 1..Len(jobtree)} : Len(FilesOf(k)) >= 2}

\* C17: when two or more discovered job files map to the same job name, the
\* catalog's entry for that name is the recipe of the one discovered last.
C17_LastWriteWins ==
    JobsDone =>
        \A k \in SharedKeys :
            /\ k \in DOMAIN jobs
            /\ ~ParseFails(Last(FilesOf(k)))
            /\ jobs[k] = parse_jobfile(Last(FilesOf(k)).path,
                                       Last(FilesOf(k)).text, FALSE).retval

-----------------------------------------------------------------------------
(* The scan loops of parse_jobfile and of recipe_parser.get_recipe, one    *)
(* iteration at a time.  get_recipe is called without recipe_folder_path,  *)
(* so the third member of its tokens (recipe exists?) is left out.         *)

\* get_recipe: the loop's body once next_ix is known
ScanFrom_rp(raw, st, next_ix) ==
    IF next_ix > -1
    THEN [st EXCEPT
            !.raw_recipe =
                @ \o <<Tok(st.start_ix, Slice(raw, st.start_ix, next_ix)),
                       Tok(next_ix, Slice(raw, next_ix, next_ix + term_len))>>,
            !.start_ix = next_ix + term_len]
    ELSE [st EXCEPT !.start_ix = -1]

\* get_recipe: one pass through the body of the scan loop
ScanStep_rp(raw, st) ==
    IF st.start_ix = 0
    THEN [st EXCEPT !.raw_recipe = Append(@, Tok(0, Slice(raw, 0, init_len))),
                    !.start_ix = init_len]
    ELSE ScanFrom_rp(raw, st, Find(raw, term_char, st.start_ix + 1))

\* get_recipe: list(list(zip(*raw_recipe_no_junk))[1]); zip of nothing is
\* empty and its [1] raises IndexError
Recipe_rp(toks, parsed_recipe) ==
    IF parsed_recipe = <<>>
    THEN [raised |-> "IndexError", file_read |-> TRUE, raw_recipe |-> toks,
          retval |-> <<>>, warned |-> <<>>]
    ELSE [raised |-> "none", file_read |-> TRUE, raw_recipe |-> toks,
          retval |-> parsed_recipe, warned |-> <<>>]

\* get_recipe after the scan: recipe[1][0] raises IndexError on an empty text
AfterScan_rp(toks) ==
    IF StripRaises(toks)
    THEN [raised |-> "IndexError", file_read |-> TRUE, raw_recipe |-> toks,
          retval |-> <<>>, warned |-> <<>>]
    ELSE Recipe_rp(toks, StripExtra(toks))

InitScan ==
    /\ pc \in {"parse_jobfile.while", "get_recipe.while"}
    /\ file_path = good_path
    /\ \/ /\ names \in SeqsOf(RecipeNames, 1, MaxNames)
          /\ \E init \in Initializers, term \in Terminators, last_term \in BOOLEAN :
                 raw_job = WriteJob(init, names, term, last_term)
       \/ /\ names = <<>>
          /\ raw_job \in SeqsOf(FreeChars, 0, MaxBufLen)
    /\ return_raw_recipe = TRUE
    /\ start_ix = 0 /\ raw_recipe = <<>> /\ retval = <<>> /\ file_read = TRUE
    /\ logfile_path = <<>>
    /\ job_name = IF pc = "parse_jobfile.while" THEN JobNameOfPath(file_path)
                  ELSE <<>>
    /\ TreeIdle /\ CatalogIdle /\ FilterIdle /\ KeysIdle /\ Quiet

\* the loop's view of st = [start_ix, raw_recipe, warned]
Scanned(st) ==
    /\ start_ix' = st.start_ix
    /\ raw_recipe' = st.raw_recipe
    /\ warned' = st.warned

\* parse_jobfile: while start_ix > -1, one iteration
ParseWhile ==
    /\ pc = "parse_jobfile.while"
    /\ start_ix > -1
    /\ Scanned(ScanStep(raw_job, job_name,
                        [start_ix |-> start_ix, raw_recipe |-> raw_recipe,
                         warned |-> warned]))
    /\ UNCHANGED <<pc, file_path, raw_job, names, return_raw_recipe, retval,
                   file_read, raised, nameVars, treeVars, keysVars, catalogVars, filterVars>>

\* parse_jobfile: the loop is left, the recipe is cleaned and returned
ParseReturn ==
    /\ pc = "parse_jobfile.while"
    /\ start_ix = -1
    /\ pc' = "parse_jobfile"
    /\ Returned(AfterScan([start_ix |-> start_ix, raw_recipe |-> raw_recipe,
                           warned |-> <<>>], return_raw_recipe))
    /\ UNCHANGED <<file_path, raw_job, names, return_raw_recipe, start_ix,
                   nameVars, treeVars, keysVars, catalogVars, filterVars>>

\* get_recipe: while start_ix > -1, one iteration
GetRecipeWhile ==
    /\ pc = "get_recipe.while"
    /\ start_ix > -1
    /\ Scanned(ScanStep_rp(raw_job, [start_ix |-> start_ix,
                                     raw_recipe |-> raw_recipe,
                                     warned |-> warned]))
    /\ UNCHANGED <<pc, file_path, raw_job, names, return_raw_recipe, retval,
                   file_read, raised, nameVars, treeVars, keysVars, catalogVars, filterVars>>

\* get_recipe: the loop is left, output_dict['recipe'] is built and returned
GetRecipeReturn ==
    /\ pc = "get_recipe.while"
    /\ start_ix = -1
    /\ pc' = "get_recipe"
    /\ Returned(AfterScan_rp(raw_recipe))
    /\ UNCHANGED <<file_path, raw_job, names, return_raw_recipe, start_ix,
                   nameVars, treeVars, keysVars, catalogVars, filterVars>>

NextScan == ParseWhile \/ ParseReturn \/ GetRecipeWhile \/ GetRecipeReturn

SpecScan == InitScan /\ [][NextScan]_vars

\* the interpreter runs the loop on: an iteration that can be taken is taken
SpecScanFair == SpecScan /\ WF_vars(NextScan)

\* the end of the span of a token
EndOf(tok) == tok.ix + Len(tok.text)

\* C18: at every step of the scan loop and in the final raw token list, each
\* token's text is the buffer slice at its offset, offsets are strictly
\* increasing, and each token starts at or after the end of the one before.
C18_TokensOrdered ==
    /\ \A i \in 1..Len(raw_recipe) :
           raw_recipe[i].text = Slice(raw_job, raw_recipe[i].ix, EndOf(raw_recipe[i]))
    /\ \A i \in 1..(Len(raw_recipe) - 1) :
           /\ raw_recipe[i].ix < raw_recipe[i + 1].ix
           /\ EndOf(raw_recipe[i]) <= raw_recipe[i + 1].ix
    /\ (pc = "parse_jobfile" /\ raised = "none") => retval = raw_recipe

\* the loop of parse_jobfile after its third iteration: five tokens, the
\* cursor at the end of the buffer
C18_Witness ==
    /\ pc = "parse_jobfile.while"
    /\ Len(raw_recipe) = 5
    /\ start_ix = Len(raw_job)
    /\ EndOf(raw_recipe[5]) = Len(raw_job)

\* C19: filter_logs on a dict in which some entries have recipe None does not
\* raise; it returns exactly the entries whose recipe is not None and contains
\* target_recipe.
C19_NoneRecipeSkipped ==
    pc = "filter_logs" =>
        /\ raised = "none"
        /\ {filtered_logs[i].key : i \in 1..Len(filtered_logs)} =
               {logs_dict[k].key : k \in
                   {k \in 1..Len(logs_dict) :
                       /\ logs_dict[k].recipe # None
                       /\ Member(target_recipe, logs_dict[k].recipe[1])}}

-----------------------------------------------------------------------------
(* keys_parser (logfile_tools.py): the data keys that are kept.  The default *)
(* ignore_keys = [] is one list object made when the function is defined.    *)

\* match in key
Contains(key, match) ==
    \E i \in 0..(Len(key) - Len(match)) : Slice(key, i, i + Len(match)) = match

\* any(match in key for match in match_ignore)
AnyMatch(key, matches) == \E i \in 1..Len(matches) : Contains(key, matches[i])

\* for key in keys: if any(...): ignore_keys.append(key)
RECURSIVE Appended(_, _, _)
Appended(ks, ignore, matches) ==
    IF ks = <<>> THEN ignore
    ELSE Appended(Tail(ks),
                  IF AnyMatch(Head(ks), matches) THEN Append(ignore, Head(ks))
                  ELSE ignore,
                  matches)

\* set(list)
SetOf(list) == {list[i] : i \in 1..Len(list)}

\* the order of str: by code point, a proper prefix first
CodePoints == <<"1", "S", "T">>
Ord(c) == CHOOSE i \in 1..Len(CodePoints) : CodePoints[i] = c
RECURSIVE StrLess(_, _)
StrLess(a, b) ==
    IF b = <<>> THEN FALSE
    ELSE IF a = <<>> THEN TRUE
    ELSE IF Head(a) # Head(b) THEN Ord(Head(a)) < Ord(Head(b))
    ELSE StrLess(Tail(a), Tail(b))

\* list(S) followed by list.sort()
RECURSIVE Sorted(_)
SortedFrom(S, least) == <<least>> \o Sorted(S \ {least})
Sorted(S) ==
    IF S = {} THEN <<>>
    ELSE SortedFrom(S, CHOOSE x \in S : \A y \in S : x = y \/ StrLess(x, y))

\* filtered_keys = list(set(keys) - set(ignore_keys)); filtered_keys.sort();
\* given is the list the call got, ignore is that same list after the appends
KeysFiltered(ks, given, ignore) ==
    [ignore_keys |-> ignore,
     filtered_keys |-> Sorted(SetOf(ks) \ SetOf(ignore))]

\* keys_parser(keys, ignore_keys, match_ignore) with ignore the list object
\* bound to ignore_keys: [ignore_keys, filtered_keys]
keys_parser(ks, ignore, matches) ==
    KeysFiltered(ks, ignore, Appended(ks, ignore, matches))

Key_S1 == <<"S", "1">>
Key_T == <<"T">>
Key_T1 == <<"T", "1">>
KeyLists ==
    {<<>>, <<Key_T, Key_S1>>, <<Key_S1, Key_T, Key_S1>>, <<Key_T1, Key_T>>}
IgnoreLists == {None, Some(<<>>), Some(<<Key_T>>)}
MatchLists == {<<>>, << <<"S">> >>, << <<"1">> >>}

InitKeys ==
    /\ pc = "call"
    /\ KeysIdle
    /\ NameIdle /\ ParseIdle /\ TreeIdle /\ CatalogIdle /\ FilterIdle /\ Quiet

\* the caller's view of r = [ignore_keys, filtered_keys]
KeysReturned(r) ==
    /\ filtered_keys' = r.filtered_keys
    /\ ignore_keys_default' =
           IF ignore_keys' = None THEN r.ignore_keys ELSE ignore_keys_default

\* keys_parser(keys, ignore_keys = ..., match_ignore = ...), ignore_keys
\* and match_ignore given as fresh lists or left out
KeysParser ==
    /\ pc \in {"call", "keys_parser"}
    /\ calls < MaxCalls
    /\ pc' = "keys_parser"
    /\ calls' = calls + 1
    /\ keys' \in KeyLists
    /\ ignore_keys' \in IgnoreLists
    /\ match_ignore' \in MatchLists
    /\ KeysReturned(keys_parser(keys',
                                IF ignore_keys' = None THEN ignore_keys_default
                                ELSE ignore_keys'[1],
                                match_ignore'))
    /\ UNCHANGED <<raised, warned, nameVars, parseVars, treeVars, catalogVars,
                   filterVars>>

NextKeys == KeysParser

SpecKeys == InitKeys /\ [][NextKeys]_vars

\* C20: each call's result depends only on its arguments: it is the sorted
\* list of the distinct keys that are not in the ignore_keys given to that call
\* (none when left out) and contain none of its match_ignore strings.
C20_CallsIndependent ==
    pc = "keys_parser" =>
        filtered_keys =
            Sorted({k \in SetOf(keys) :
                       /\ k \notin (IF ignore_keys = None THEN {}
                                    ELSE SetOf(ignore_keys[1]))
                       /\ ~AnyMatch(k, match_ignore)})

-----------------------------------------------------------------------------
(* Termination of the scan loops. *)

InLoop == pc \in {"parse_jobfile.while", "get_recipe.while"}
ScanOver == pc \in {"parse_jobfile", "get_recipe"}

\* one iteration: the initializer step moves the cursor to init_len, a step
\* that finds a 0x00 moves it strictly forward, a step that finds none sets
\* it to the stop value -1
CursorAdvances ==
    (InLoop /\ pc' = pc) =>
        IF start_ix = 0 THEN start_ix' = init_len
        ELSE IF Find(raw_job, term_char, start_ix + 1) > -1
        THEN start_ix' > start_ix /\ start_ix' <= Len(raw_job) + term_len - 1
        ELSE start_ix' = -1

\* C21: the scan loops of parse_jobfile and get_recipe terminate on every
\* buffer: after the initializer step the cursor strictly increases on every
\* iteration that finds a 0x00, an iteration that finds none sets the stop
\* value, the tokens emitted stay bounded by the buffer length, and the loop
\* is eventually left.
C21_ScanTerminates ==
    /\ [][CursorAdvances]_vars
    /\ [](Len(raw_recipe) <= Len(raw_job) + 1)
    /\ <>ScanOver

\* parse_jobfile has left its loop after three iterations that moved the
\* cursor and one that stopped it
C21_Witness ==
    /\ pc = "parse_jobfile"
    /\ start_ix = -1
    /\ Len(raw_recipe) = 5
    /\ warned # <<>>
====
